---- MODULE Spec2Model ----
(***************************************************************************)
(* A model of wampy's WebSocket transport (connection.py) and of its WAMP  *)
(* MessageHandler (message_handler.py).                                    *)
(*                                                                         *)
(* SpecWS  : the transport -- handshake and receive().                     *)
(* Spec    : the message handler and the session state it works on.        *)
(***************************************************************************)
EXTENDS Integers, Sequences, FiniteSets, TLC

(***************************************************************************)
(* Bounds of the model.                                                    *)
(***************************************************************************)
MaxReads == 4        \* reader.readline() calls made by receive(), in total
MaxSends == 1        \* send() calls
MaxMessages == 3     \* handle_message calls
MaxRequests == 2     \* Subscribe and Register requests issued

(***************************************************************************)
(* Program constants.                                                      *)
(***************************************************************************)
HANDSHAKE_TIMEOUT == 2
OPCODE_TEXT == 1
OPCODE_BINARY == 2
OPCODE_CLOSE == 8
OPCODE_PING == 9
OPCODE_PONG == 10
FIN_BIT == 128

CR == 13
LF == 10
None == -1           \* Python's None where the other values are numbers
NoFrame == [opcode |-> None, payload |-> <<>>]    \* frame = None

VARIABLES
    \* ---- WebSocket ----
    connected,       \* self.connected
    hs_pc,           \* _handshake: "init", "reading", "done", "failed"
    hs_error,        \* exception _handshake ended with, or "none"
    hs_elapsed,      \* time spent inside "with timeout(2)"
    hs_line,         \* the last line of the response that was read
    status,          \* local of _read_handshake_response
    headers,         \* local of _read_handshake_response
    self_status,     \* self.status
    self_headers,    \* self.headers
    rx_pc,           \* receive(): "idle", "reading", "returned", "failed"
    rx_error,        \* exception receive() ended with, or "none"
    frame,           \* local of receive()
    received_bytes,  \* local of receive()
    rx_result,       \* the value receive() returned
    written,         \* what self.writer.write was given, in order
    reads,           \* number of readline() calls made by receive()
    sends,           \* number of send() calls
    pings,           \* payloads of the ping frames receive() assembled
    assembled,       \* frames from_bytes returned during this receive()
    last_read,       \* the last readline() of this receive(): "none",
                     \* "line", "eof" or "raised"
    dc_pc,           \* disconnect(): "idle", "returned", "failed"
    dc_error,        \* exception disconnect() ended with, or "none"
    \* ---- Session / MessageHandler ----
    request_ids,       \* session.request_ids
    subscription_map,  \* session.subscription_map
    registration_map,  \* session.registration_map
    session_id,        \* session.session_id
    message_queue,     \* session._message_queue
    sent,              \* what session.send_message was given, in order
    environ,           \* os.environ as handle_challenge last found it
    next_request_id,   \* the id the next request gets
    handled,           \* number of handle_message calls made
    last_message,      \* the envelope of the last handle_message call
    raised,            \* the exception that call raised, or "none"
    handlers_run,      \* the handle_ methods that call ran
    invoked,           \* the application callables that call invoked
    roles_registered,  \* client._register_roles() has been called
    acked,             \* subscription id -> request id of the Subscribed
                       \* message that last created its entry
    call_raised,       \* the callable that call invoked raised
    hw_pc,             \* handle_welcome: the statement to execute next
    log                \* the handled messages of the kinds that can reach
                       \* the queue, in the order handled

wsvars == <<connected, hs_pc, hs_error, hs_elapsed, hs_line, status, headers,
            self_status, self_headers, rx_pc, rx_error, frame,
            received_bytes, rx_result, written, reads, sends, pings,
            assembled, last_read, dc_pc, dc_error>>

mhvars == <<request_ids, subscription_map, registration_map, session_id,
            message_queue, sent, environ, next_request_id, handled,
            last_message, raised, handlers_run, invoked, roles_registered,
            acked, call_raised, hw_pc, log>>

\* what the requests and the foreground leave alone
mhaux == <<acked, call_raised, hw_pc, log>>

vars == <<wsvars, mhvars>>

(***************************************************************************)
(* Frame codec (frames.py): first byte FIN|opcode, second byte the payload *)
(* length, then the payload.                                               *)
(***************************************************************************)
FrameBytes(opcode, payload) == <<FIN_BIT + opcode, Len(payload)>> \o payload

IsIncomplete(buf) == Len(buf) < 2 \/ Len(buf) < 2 + buf[2]

from_bytes(buf) ==
    [opcode |-> buf[1] % 16, payload |-> SubSeq(buf, 3, 2 + buf[2])]

PongFrame(payload) == FrameBytes(OPCODE_PONG, payload)

TextFrame(payload) == FrameBytes(OPCODE_TEXT, payload)

(***************************************************************************)
(* What reader.readline() can give receive(): bytes up to and including    *)
(* the first LF, or what is left at end of stream (possibly nothing).      *)
(***************************************************************************)
EOF == <<>>

RxLines ==
    { EOF,
      <<FIN_BIT + OPCODE_PING, 2, CR, LF>>,
      <<FIN_BIT + OPCODE_PING, 3, 7, CR, LF>>,
      <<FIN_BIT + OPCODE_PING, 4, CR, LF>>,
      <<FIN_BIT + OPCODE_TEXT, 3, 7, CR, LF>>,
      <<FIN_BIT + OPCODE_TEXT, 4, CR, LF>>,
      <<FIN_BIT + OPCODE_BINARY, 2, CR, LF>>,
      <<FIN_BIT + OPCODE_CLOSE, 2, CR, LF>>,
      <<FIN_BIT + OPCODE_PONG, 2, CR, LF>>,
      <<CR, LF>>,
      <<FIN_BIT + OPCODE_TEXT, 2, 7>> }

EndsWithCRLF(line) ==
    /\ Len(line) >= 2
    /\ line[Len(line) - 1] = CR
    /\ line[Len(line)] = LF

Payloads == { <<CR, LF>>, <<7, CR, LF>> }

(***************************************************************************)
(* Handshake response lines, as sequences of characters.                   *)
(***************************************************************************)
HsLines ==
    { <<>>,
      <<"\r", "\n">>,
      <<"H", " ", "1", "0", "1", " ", "S", "\r", "\n">>,
      <<"H", " ", "0", "\r", "\n">>,
      <<"H", " ", "x", "\r", "\n">>,
      <<"H", "\r", "\n">>,
      <<"U", ":", " ", "W", "\r", "\n">>,
      <<"k", ":", "v", ":", "w", "\r", "\n">> }

Whitespace == {" ", "\r", "\n"}

RECURSIVE lstrip(_)
lstrip(s) ==
    IF s # <<>> /\ Head(s) \in Whitespace THEN lstrip(Tail(s)) ELSE s

RECURSIVE rstrip(_)
rstrip(s) ==
    IF s # <<>> /\ s[Len(s)] \in Whitespace
    THEN rstrip(SubSeq(s, 1, Len(s) - 1))
    ELSE s

strip(s) == rstrip(lstrip(s))

\* s.split(sep, maxsplit): a sequence of at most maxsplit + 1 parts
RECURSIVE split(_, _, _)
split(s, sep, maxsplit) ==
    IF maxsplit = 0 \/ \A i \in 1..Len(s) : s[i] # sep
    THEN <<s>>
    ELSE LET i == CHOOSE j \in 1..Len(s) :
                      s[j] = sep /\ \A k \in 1..(j - 1) : s[k] # sep
         IN <<SubSeq(s, 1, i - 1)>>
                \o split(SubSeq(s, i + 1, Len(s)), sep, maxsplit - 1)

Digit(c) == CASE c = "0" -> 0 [] c = "1" -> 1 [] OTHER -> None

IsInt(s) == s # <<>> /\ \A i \in 1..Len(s) : Digit(s[i]) # None

RECURSIVE int(_)
int(s) == IF s = <<>> THEN 0
          ELSE 10 * int(SubSeq(s, 1, Len(s) - 1)) + Digit(s[Len(s)])

lowerchar(c) == CASE c = "U" -> "u" [] c = "W" -> "w" [] c = "H" -> "h"
                  [] c = "S" -> "s" [] OTHER -> c

lower(s) == [i \in 1..Len(s) |-> lowerchar(s[i])]

\* a dict as a set of <<key, value>> pairs; d[key] = value
SetItem(d, key, value) == {kv \in d : kv[1] # key} \cup {<<key, value>>}

(***************************************************************************)
(* WebSocket.__init__                                                      *)
(***************************************************************************)
InitWS ==
    /\ connected = FALSE
    /\ hs_pc = "init"
    /\ hs_error = "none"
    /\ hs_elapsed = 0
    /\ hs_line = <<>>
    /\ status = None
    /\ headers = {}
    /\ self_status = None
    /\ self_headers = {}
    /\ rx_pc = "idle"
    /\ rx_error = "none"
    /\ frame = NoFrame
    /\ received_bytes = <<>>
    /\ rx_result = NoFrame
    /\ written = <<>>
    /\ reads = 0
    /\ sends = 0
    /\ pings = <<>>
    /\ assembled = 0
    /\ last_read = "none"
    /\ dc_pc = "idle"
    /\ dc_error = "none"

dcvars == <<dc_pc, dc_error>>

rxvars == <<rx_pc, rx_error, frame, received_bytes, rx_result, written,
            reads, sends, pings, assembled, last_read>>

hsvars == <<connected, hs_pc, hs_error, hs_elapsed, hs_line, status, headers,
            self_status, self_headers>>

(***************************************************************************)
(* _handshake / _read_handshake_response                                   *)
(***************************************************************************)
\* the handshake with connected set before the response is read
HandshakeConnectsEarly ==
    /\ hs_pc \in {"init", "failed"}
    /\ connected' = TRUE
    /\ hs_pc' = "reading"
    /\ hs_error' = "none"
    /\ hs_elapsed' = 0
    /\ hs_line' = <<>>
    /\ status' = None
    /\ headers' = {}
    /\ UNCHANGED <<self_status, self_headers, rxvars,
                   dcvars, mhvars>>

\* connect(): the request is written and the response read begins; a
\* connection is opened once, and again only after a failed attempt
Handshake ==
    /\ hs_pc \in {"init", "failed"}
    /\ hs_pc' = "reading"
    /\ hs_error' = "none"
    /\ hs_elapsed' = 0
    /\ hs_line' = <<>>
    /\ status' = None
    /\ headers' = {}
    /\ UNCHANGED <<connected, self_status, self_headers, rxvars,
                   dcvars, mhvars>>

HsFail(err) ==
    /\ hs_pc' = "failed"
    /\ hs_error' = err
    /\ UNCHANGED <<connected, status, headers, self_status, self_headers,
                   hs_elapsed>>

\* "if not status": None and 0 are both falsy
StatusUnset(s) == s = None \/ s = 0

\* the loop is left: connected is set and (status, headers) returned
HsComplete ==
    /\ connected' = TRUE
    /\ self_status' = status
    /\ self_headers' = headers
    /\ hs_pc' = "done"
    /\ status' = None        \* the locals and the timer are gone
    /\ headers' = {}
    /\ hs_elapsed' = 0
    /\ UNCHANGED hs_error

\* one iteration of the loop of _read_handshake_response
HsReadLine(received) ==
    /\ hs_pc = "reading"
    /\ hs_elapsed < HANDSHAKE_TIMEOUT
    /\ hs_line' = received
    /\ LET line == strip(received)
           status_info == split(line, " ", 2)
           kv == split(line, ":", 1)
       IN IF received = <<"\r", "\n">>
          THEN HsComplete
          ELSE IF StatusUnset(status)
          THEN IF Len(status_info) < 2
               THEN HsFail("IndexError")
               ELSE IF ~IsInt(status_info[2])
               THEN HsFail("ValueError")
               ELSE /\ status' = int(status_info[2])
                    /\ headers' = SetItem(SetItem(headers,
                                      <<"status_info">>, status_info),
                                      <<"status">>, <<status_info[2]>>)
                    /\ UNCHANGED <<connected, hs_pc, hs_error, hs_elapsed,
                                   self_status, self_headers>>
          ELSE IF Len(kv) # 2
               THEN HsFail("Exception")
               ELSE /\ headers' = SetItem(headers, lower(kv[1]),
                                          lower(strip(kv[2])))
                    /\ UNCHANGED <<connected, hs_pc, hs_error, hs_elapsed,
                                   status, self_status, self_headers>>
    /\ UNCHANGED <<rxvars,
                   dcvars, mhvars>>

\* time passes while the response read is suspended
HsTick ==
    /\ hs_pc = "reading"
    /\ hs_elapsed < HANDSHAKE_TIMEOUT
    /\ hs_elapsed' = hs_elapsed + 1
    /\ UNCHANGED <<connected, hs_pc, hs_error, hs_line, status, headers,
                   self_status, self_headers, rxvars,
                   dcvars, mhvars>>

\* the deadline of "with timeout(2)" is reached: the read is cancelled and
\* _handshake raises (WampyError where WampyTimeOut covers the timeout)
HsTimeout ==
    /\ hs_pc = "reading"
    /\ hs_elapsed = HANDSHAKE_TIMEOUT
    /\ HsFail("WampyError")
    /\ UNCHANGED <<hs_line, rxvars,
                   dcvars, mhvars>>

(***************************************************************************)
(* send / _send_raw / handle_ping / handle_close                           *)
(***************************************************************************)
\* _send_raw: writer.write(websocket_message)
send_raw(w, websocket_message) == Append(w, websocket_message)

\* handle_ping with the ping's payload dropped
handle_ping_no_payload(ping_frame) == PongFrame(<<>>)

\* handle_ping is a plain function: its body runs where receive() builds the
\* argument of spawn; the value is the frame given to _send_raw.  What spawn
\* (wampy.async) then does with the None it is given does not reach receive().
handle_ping(ping_frame) == PongFrame(ping_frame.payload)

\* handle_close is a plain function too: it raises where receive() builds
\* the argument of spawn; the value is the exception raised
handle_close(close_frame) == "ConnectionError"

\* send(message): a Text frame with the serialized message
Send(payload) ==
    /\ hs_pc = "done"
    /\ sends < MaxSends
    /\ sends' = sends + 1
    /\ written' = send_raw(written, TextFrame(payload))
    /\ UNCHANGED <<hsvars, rx_pc, rx_error, frame, received_bytes, rx_result,
                   reads, pings, assembled, last_read,
                   dcvars, mhvars>>

(***************************************************************************)
(* receive()                                                               *)
(***************************************************************************)
Receive ==
    /\ hs_pc = "done"
    /\ rx_pc \in {"idle", "returned", "failed"}
    /\ reads < MaxReads
    /\ rx_pc' = "reading"
    /\ rx_error' = "none"
    /\ frame' = NoFrame
    /\ received_bytes' = <<>>
    /\ rx_result' = NoFrame
    /\ assembled' = 0
    /\ last_read' = "none"
    /\ UNCHANGED <<hsvars, written, reads, sends, pings,
                   dcvars, mhvars>>

RxFail(err) ==
    /\ rx_pc' = "failed"
    /\ rx_error' = err
    /\ rx_result' = NoFrame

\* the end of receive() without the "frame is None" check
RxFinishUnchecked(f) ==
    /\ rx_pc' = "returned"
    /\ rx_result' = f
    /\ rx_error' = "none"

\* after the loop: "if frame is None: raise ...; return frame"
RxFinish(f) ==
    IF f = NoFrame
    THEN RxFail("WampProtocolError")
    ELSE /\ rx_pc' = "returned"
         /\ rx_result' = f
         /\ rx_error' = "none"

\* "await self.reader.readline()" raises
RxReadRaises ==
    /\ rx_pc = "reading"
    /\ reads < MaxReads
    /\ reads' = reads + 1
    /\ last_read' = "raised"
    /\ RxFail("ConnectionError")
    /\ UNCHANGED <<hsvars, frame, received_bytes, written, sends, pings,
                   assembled,
                   dcvars, mhvars>>

\* one iteration of the loop of receive() in which readline() gives line
RxReadLine(line) ==
    /\ rx_pc = "reading"
    /\ reads < MaxReads
    /\ reads' = reads + 1
    /\ last_read' = IF line = EOF THEN "eof" ELSE "line"
    /\ UNCHANGED <<hsvars, sends,
                   dcvars, mhvars>>
    /\ LET buf == received_bytes \o line
           f == from_bytes(buf)
       IN IF line = EOF
          THEN /\ RxFinish(frame)
               /\ UNCHANGED <<frame, received_bytes, written, pings,
                              assembled>>
          ELSE IF ~EndsWithCRLF(line)
          THEN /\ RxFail("ValueError")
               /\ UNCHANGED <<frame, received_bytes, written, pings,
                              assembled>>
          ELSE IF IsIncomplete(buf)
          THEN /\ received_bytes' = buf
               /\ UNCHANGED <<rx_pc, rx_error, rx_result, frame, written,
                              pings, assembled>>
          ELSE /\ frame' = f
               /\ assembled' = assembled + 1
               /\ IF f.opcode = OPCODE_PING
                  THEN /\ written' = send_raw(written, handle_ping(f))
                       /\ pings' = Append(pings, f.payload)
                       /\ received_bytes' = <<>>
                       /\ UNCHANGED <<rx_pc, rx_error, rx_result>>
                  ELSE IF f.opcode = OPCODE_BINARY
                  THEN /\ RxFinish(f)
                       /\ received_bytes' = buf
                       /\ UNCHANGED <<written, pings>>
                  ELSE IF f.opcode = OPCODE_CLOSE
                  THEN /\ RxFail(handle_close(f))
                       /\ received_bytes' = buf
                       /\ UNCHANGED <<written, pings>>
                  ELSE /\ RxFinish(f)
                       /\ received_bytes' = buf
                       /\ UNCHANGED <<written, pings>>

(***************************************************************************)
(* disconnect                                                              *)
(***************************************************************************)
\* self.socket: __init__ and _connect assign reader and writer, never socket
SelfSocket == None

\* disconnect() on an open connection
Disconnect ==
    /\ hs_pc = "done"
    /\ dc_pc = "idle"
    /\ IF SelfSocket = None
       THEN /\ dc_pc' = "failed"         \* self.socket: no such attribute
            /\ dc_error' = "AttributeError"
       ELSE /\ dc_pc' = "returned"       \* socket.error is passed over
            /\ dc_error' = "none"
    \* the reader receive() waits on is not touched
    /\ UNCHANGED <<hsvars, rxvars, mhvars>>

NextWS ==
    \/ Handshake
    \/ \E received \in HsLines : HsReadLine(received)
    \/ HsTick
    \/ HsTimeout
    \/ \E payload \in Payloads : Send(payload)
    \/ Receive
    \/ RxReadRaises
    \/ \E line \in RxLines : RxReadLine(line)
    \/ Disconnect

(***************************************************************************)
(* WAMP messages (wampy.messages): the kinds, and the object built from an *)
(* envelope's positional fields.                                           *)
(***************************************************************************)
MESSAGE_TYPE_MAP ==
    (2 :> "welcome") @@ (3 :> "abort") @@ (4 :> "challenge")
    @@ (5 :> "authenticate") @@ (6 :> "goodbye") @@ (8 :> "error")
    @@ (33 :> "subscribed") @@ (36 :> "event") @@ (50 :> "result")
    @@ (65 :> "registered") @@ (68 :> "invocation") @@ (70 :> "yield")

\* number of positional fields of each message class
FieldCount ==
    [welcome |-> 2, abort |-> 2, challenge |-> 2, authenticate |-> 2,
     goodbye |-> 2, error |-> 4, subscribed |-> 2, event |-> 5,
     result |-> 3, registered |-> 2, invocation |-> 5, yield |-> 3]

\* message_class(*message[1:])
MessageObj(message) ==
    LET name == MESSAGE_TYPE_MAP[message[1]]
    IN CASE name = "welcome" ->
              [name |-> name, session_id |-> message[2]]
         [] name = "abort" ->
              [name |-> name, message |-> message[3]]
         [] name = "challenge" ->
              [name |-> name, auth_method |-> message[2],
               challenge |-> message[3]]
         [] name = "authenticate" ->
              [name |-> name, signature |-> message[2]]
         [] name = "goodbye" ->
              [name |-> name, message |-> message[3]]
         [] name = "error" ->
              [name |-> name, request_type |-> message[2],
               request_id |-> message[3], message |-> message[5]]
         [] name = "subscribed" ->
              [name |-> name, request_id |-> message[2],
               subscription_id |-> message[3]]
         [] name = "event" ->
              [name |-> name, subscription_id |-> message[2],
               publish_args |-> message[5], publish_kwargs |-> message[6]]
         [] name = "result" ->
              [name |-> name, request_id |-> message[2],
               value |-> message[4]]
         [] name = "registered" ->
              [name |-> name, request_id |-> message[2],
               registration_id |-> message[3]]
         [] name = "invocation" ->
              [name |-> name, request_id |-> message[2],
               registration_id |-> message[3], call_args |-> message[5],
               call_kwargs |-> message[6]]
         [] name = "yield" ->
              [name |-> name, request_id |-> message[2],
               result_args |-> message[4]]

\* the handle_ methods MessageHandler defines, by message name
Methods ==
    {"abort", "authenticate", "challenge", "error", "event", "goodbye",
     "subscribed", "invocation", "registered", "result", "welcome"}

(***************************************************************************)
(* The values the model draws on.                                          *)
(***************************************************************************)
SubscriptionIds == {11, 12}
RegistrationIds == {21, 22}
SessionIds == {31}
\* the (topic, callback) pairs the client subscribes with
Subscriptions == {<<"t1", "cb1">>, <<"t2", "cb2">>}
Procedures == {"p1", "p2"}
SECRET == <<"k", "e", "y">>
CHALLENGE == <<"c", "h">>

\* what an application callable does when it is called
Outcomes == { [raises |-> FALSE, result |-> 7],
              [raises |-> TRUE, result |-> None] }

\* the message kinds whose handler calls an application callable
Calling(message) == message[1] \in {36, 68}

\* the message kind whose handler reads os.environ
ReadsEnviron(message) == message[1] = 4

Envelopes ==
    {<<2, sid, "details">> : sid \in SessionIds}
    \cup {<<3, "details", "wamp.error.abort">>}
    \cup {<<4, m, CHALLENGE>> : m \in {"ticket", "wampcra"}}
    \cup {<<5, SECRET, "extra">>}
    \cup {<<6, "details", "wamp.close">>}
    \cup {<<8, 48, 1, "details", "wamp.error">>}
    \cup {<<33, r, i>> : r \in 1..MaxRequests, i \in SubscriptionIds}
    \cup {<<36, i, 1, "details", <<42>>, {}>> : i \in SubscriptionIds}
    \cup {<<50, 1, "details", <<7>>>>}
    \cup {<<65, r, i>> : r \in 1..MaxRequests, i \in RegistrationIds}
    \cup {<<68, 5, i, "details", <<42>>, {}>> : i \in RegistrationIds}
    \cup {<<70, 5, "options", <<7>>>>}
    \cup {<<99, 1, 11>>}
    \cup {<<33, 1>>}

\* a dict: a function on the keys it holds
EmptyDict == <<>>

DictSet(d, key, value) ==
    [k \in DOMAIN d \cup {key} |-> IF k = key THEN value ELSE d[k]]

\* what os.environ can hold when a Challenge is handled
Environs == {EmptyDict, [k \in {"WAMPYSECRET"} |-> SECRET]}

\* the values session.request_ids holds: (message, handler) for a Subscribe
\* request, the procedure name for a Register request
TupleValue(topic, handler) ==
    [type |-> "tuple", topic |-> topic, handler |-> handler, str |-> ""]

StrValue(str) ==
    [type |-> "str", topic |-> "", handler |-> "", str |-> str]

(***************************************************************************)
(* MessageHandler.  A handler is a function of the session state it finds  *)
(* (a record of the variables), the message object and what the            *)
(* application callable does when called; its value is the state it leaves.*)
(***************************************************************************)
Raise(s, exc) == [s EXCEPT !.raised = exc]

\* a put that places the message at the head of the queue
PutFirst(s, message_obj) ==
    [s EXCEPT !.message_queue = <<message_obj>> \o @]

\* session._message_queue.put(message_obj)
Put(s, message_obj) ==
    [s EXCEPT !.message_queue = Append(@, message_obj)]

\* session.send_message(message)
SendMessage(s, message) == [s EXCEPT !.sent = Append(@, message)]

\* wampy.auth.compute_wcs
compute_wcs(secret, challenge_data) == <<"#">> \o secret \o challenge_data

Authenticate(signature) == [name |-> "authenticate", signature |-> signature]

handle_abort(s, message_obj) == Put(s, message_obj)

handle_authenticate(s, message_obj) == Put(s, message_obj)

\* handle_challenge signing whatever the method is
handle_challenge_always_signs(s, message_obj) ==
    IF "WAMPYSECRET" \notin DOMAIN s.environ
    THEN Put(s, message_obj)
    ELSE LET secret == s.environ["WAMPYSECRET"]
         IN SendMessage(s, Authenticate(
                compute_wcs(secret, message_obj.challenge)))

handle_challenge(s, message_obj) ==
    IF "WAMPYSECRET" \notin DOMAIN s.environ
    THEN Put(s, message_obj)
    ELSE LET secret == s.environ["WAMPYSECRET"]
         IN IF message_obj.auth_method = "ticket"
            THEN SendMessage(s, Authenticate(secret))
            ELSE SendMessage(s, Authenticate(
                     compute_wcs(secret, message_obj.challenge)))

handle_error(s, message_obj) == Put(s, message_obj)

\* handle_event that drops an event of a subscription it does not know
handle_event_ignores_unknown(s, message_obj, outcome) ==
    IF message_obj.subscription_id \notin DOMAIN s.subscription_map
    THEN s
    ELSE LET entry == s.subscription_map[message_obj.subscription_id]
             call == [func |-> entry[1],
                      args |-> message_obj.publish_args,
                      kwargs |-> message_obj.publish_kwargs,
                      meta |-> [topic |-> entry[2],
                                subscription_id |->
                                    message_obj.subscription_id]]
             called == [s EXCEPT !.invoked = Append(@, call)]
         IN IF outcome.raises THEN Raise(called, "CallbackError")
            ELSE called

\* handle_event catching what the callback raises
handle_event_catches(s, message_obj, outcome) ==
    IF message_obj.subscription_id \notin DOMAIN s.subscription_map
    THEN Raise(s, "KeyError")
    ELSE LET entry == s.subscription_map[message_obj.subscription_id]
             func == entry[1]
             topic == entry[2]
             call == [func |-> func,
                      args |-> message_obj.publish_args,
                      kwargs |-> message_obj.publish_kwargs,
                      meta |-> [topic |-> topic,
                                subscription_id |->
                                    message_obj.subscription_id]]
         IN [s EXCEPT !.invoked = Append(@, call)]

\* handle_event unpacking the entry as (topic, handler)
handle_event_swapped_entry(s, message_obj, outcome) ==
    IF message_obj.subscription_id \notin DOMAIN s.subscription_map
    THEN Raise(s, "KeyError")
    ELSE LET entry == s.subscription_map[message_obj.subscription_id]
             func == entry[2]
             topic == entry[1]
             call == [func |-> func,
                      args |-> message_obj.publish_args,
                      kwargs |-> message_obj.publish_kwargs,
                      meta |-> [topic |-> topic,
                                subscription_id |->
                                    message_obj.subscription_id]]
             called == [s EXCEPT !.invoked = Append(@, call)]
         IN IF outcome.raises THEN Raise(called, "CallbackError")
            ELSE called

handle_event(s, message_obj, outcome) ==
    IF message_obj.subscription_id \notin DOMAIN s.subscription_map
    THEN Raise(s, "KeyError")
    ELSE LET entry == s.subscription_map[message_obj.subscription_id]
             func == entry[1]
             topic == entry[2]
             call == [func |-> func,
                      args |-> message_obj.publish_args,
                      kwargs |-> message_obj.publish_kwargs,
                      meta |-> [topic |-> topic,
                                subscription_id |->
                                    message_obj.subscription_id]]
             called == [s EXCEPT !.invoked = Append(@, call)]
         IN IF outcome.raises THEN Raise(called, "CallbackError")
            ELSE called

handle_goodbye(s, message_obj) == Put(s, message_obj)

\* handle_subscribed keying the entry by the request id
handle_subscribed_by_request_id(s, message_obj) ==
    IF message_obj.request_id \notin DOMAIN s.request_ids
    THEN Raise(s, "KeyError")
    ELSE LET value == s.request_ids[message_obj.request_id]
         IN IF value.type # "tuple"
            THEN Raise(s, "ValueError")
            ELSE [s EXCEPT !.subscription_map =
                      DictSet(@, message_obj.request_id,
                              <<value.handler, value.topic>>)]

handle_subscribed(s, message_obj) ==
    IF message_obj.request_id \notin DOMAIN s.request_ids
    THEN Raise(s, "KeyError")
    ELSE LET value == s.request_ids[message_obj.request_id]
         IN IF value.type # "tuple"
            THEN Raise(s, "ValueError")   \* a name does not unpack
            ELSE [s EXCEPT !.subscription_map =
                      DictSet(@, message_obj.subscription_id,
                              <<value.handler, value.topic>>)]

Error(request_id, error, exc, message_obj) ==
    [name |-> "error", request_type |-> 68, request_id |-> request_id,
     error |-> error,
     kwargs_dict |-> [exc_type |-> exc, call_args |-> message_obj.call_args,
                      call_kwargs |-> message_obj.call_kwargs]]

Yield(request_id, result_args, result_kwargs) ==
    [name |-> "yield", request_id |-> request_id,
     result_args |-> result_args, result_kwargs |-> result_kwargs]

\* process_result sending the Error whatever the procedure did
process_result_always_error(s, message_obj, result, exc) ==
    IF s.session_id = None
    THEN s
    ELSE LET procedure_name ==
                 s.registration_map[message_obj.registration_id].str
             s1 == SendMessage(s, Error(message_obj.request_id,
                                        procedure_name, exc, message_obj))
             result_kwargs ==
                 [message |-> result,
                  meta |-> [procedure_name |-> procedure_name,
                            session_id |-> s.session_id]]
         IN SendMessage(s1, Yield(message_obj.request_id, <<result>>,
                                  result_kwargs))

\* process_result returning once the Error is sent
process_result_error_only(s, message_obj, result, exc) ==
    IF s.session_id = None
    THEN s
    ELSE LET procedure_name ==
                 s.registration_map[message_obj.registration_id].str
             result_kwargs ==
                 [message |-> result,
                  meta |-> [procedure_name |-> procedure_name,
                            session_id |-> s.session_id]]
         IN IF exc # "none"
            THEN SendMessage(s, Error(message_obj.request_id,
                                      procedure_name, exc, message_obj))
            ELSE SendMessage(s, Yield(message_obj.request_id, <<result>>,
                                      result_kwargs))

\* process_result without the test of the session id
process_result_no_session_check(s, message_obj, result, exc) ==
    LET procedure_name ==
            s.registration_map[message_obj.registration_id].str
        s1 == IF exc # "none"
              THEN SendMessage(s, Error(message_obj.request_id,
                                        procedure_name, exc, message_obj))
              ELSE s
        result_kwargs ==
            [message |-> result,
             meta |-> [procedure_name |-> procedure_name,
                       session_id |-> s.session_id]]
    IN SendMessage(s1, Yield(message_obj.request_id, <<result>>,
                             result_kwargs))

process_result(s, message_obj, result, exc) ==
    IF s.session_id = None
    THEN s
    ELSE LET procedure_name ==
                 s.registration_map[message_obj.registration_id].str
             s1 == IF exc # "none"
                   THEN SendMessage(s, Error(message_obj.request_id,
                                             procedure_name, exc,
                                             message_obj))
                   ELSE s
             result_kwargs ==
                 [message |-> result,
                  meta |-> [procedure_name |-> procedure_name,
                            session_id |-> s.session_id]]
         IN SendMessage(s1, Yield(message_obj.request_id, <<result>>,
                                  result_kwargs))

handle_invocation(s, message_obj, outcome) ==
    IF message_obj.registration_id \notin DOMAIN s.registration_map
    THEN Raise(s, "KeyError")
    ELSE LET value == s.registration_map[message_obj.registration_id]
             call == [func |-> value.str,
                      args |-> message_obj.call_args,
                      kwargs |-> message_obj.call_kwargs,
                      meta |-> [topic |-> "", subscription_id |-> None]]
             called == [s EXCEPT !.invoked = Append(@, call)]
         IN IF value.type # "str"
            THEN Raise(s, "TypeError")        \* getattr(client, <tuple>)
            ELSE IF value.str \notin Procedures
            THEN Raise(s, "AttributeError")
            ELSE IF outcome.raises
            THEN process_result(called, message_obj, None, "Exception")
            ELSE process_result(called, message_obj, outcome.result, "none")

handle_registered(s, message_obj) ==
    IF message_obj.request_id \notin DOMAIN s.request_ids
    THEN Raise(s, "KeyError")
    ELSE [s EXCEPT !.registration_map =
              DictSet(@, message_obj.registration_id,
                      s.request_ids[message_obj.request_id])]

handle_result(s, message_obj) == Put(s, message_obj)

\* handle_welcome putting the message on the queue first
WelcomeStepsPutFirst == <<"put", "store", "register_roles">>

\* the statements of handle_welcome, in the order they execute
WelcomeSteps == <<"store", "put", "register_roles">>

WelcomeStep(name, s, message_obj) ==
    CASE name = "store" ->
             [s EXCEPT !.session_id = message_obj.session_id]
      [] name = "put" -> Put(s, message_obj)
      [] name = "register_roles" -> [s EXCEPT !.roles_registered = TRUE]

handle_welcome(s, message_obj) ==
    LET s1 == WelcomeStep(WelcomeSteps[1], s, message_obj)
        s2 == WelcomeStep(WelcomeSteps[2], s1, message_obj)
    IN WelcomeStep(WelcomeSteps[3], s2, message_obj)

\* handler = getattr(self, handler_name); handler(message_obj)
Dispatch(s, message_obj, outcome) ==
    LET name == message_obj.name
        r == [s EXCEPT !.handlers_run = Append(@, name)]
    IN CASE name = "abort" -> handle_abort(r, message_obj)
         [] name = "authenticate" -> handle_authenticate(r, message_obj)
         [] name = "challenge" -> handle_challenge(r, message_obj)
         [] name = "error" -> handle_error(r, message_obj)
         [] name = "event" -> handle_event(r, message_obj, outcome)
         [] name = "goodbye" -> handle_goodbye(r, message_obj)
         [] name = "subscribed" -> handle_subscribed(r, message_obj)
         [] name = "invocation" -> handle_invocation(r, message_obj, outcome)
         [] name = "registered" -> handle_registered(r, message_obj)
         [] name = "result" -> handle_result(r, message_obj)
         [] name = "welcome" -> handle_welcome(r, message_obj)

\* the lookup in MESSAGE_TYPE_MAP made without the membership test
UnknownCodeRaises(s, message) == Raise(s, "KeyError")

\* the "wamp_code not in MESSAGE_TYPE_MAP" branch: log and return
UnknownCode(s, message) == s

handle_message(s, message, outcome) ==
    LET wamp_code == message[1]
    IN IF wamp_code \notin DOMAIN MESSAGE_TYPE_MAP
       THEN UnknownCode(s, message)
       ELSE IF Len(message) - 1 # FieldCount[MESSAGE_TYPE_MAP[wamp_code]]
       THEN Raise(s, "TypeError")
       ELSE IF MESSAGE_TYPE_MAP[wamp_code] \notin Methods
       THEN Raise(s, "AttributeError")
       ELSE Dispatch(s, MessageObj(message), outcome)

\* the kinds with a handler that puts on the queue: the six that always do,
\* and Challenge
LoggedKinds ==
    {"abort", "authenticate", "error", "goodbye", "result", "welcome",
     "challenge"}

\* the log once handle_message(message) has been called, os.environ being env
Logged(message, env) ==
    IF /\ message[1] \in DOMAIN MESSAGE_TYPE_MAP
       /\ Len(message) - 1 = FieldCount[MESSAGE_TYPE_MAP[message[1]]]
       /\ MESSAGE_TYPE_MAP[message[1]] \in LoggedKinds
    THEN Append(log, [message_obj |-> MessageObj(message),
                      secret |-> "WAMPYSECRET" \in DOMAIN env])
    ELSE log

\* the state a handle_message call starts from, os.environ being env
SessionState(env) ==
    [environ |-> env, request_ids |-> request_ids, subscription_map |-> subscription_map,
     registration_map |-> registration_map, session_id |-> session_id,
     message_queue |-> message_queue, sent |-> sent, raised |-> "none",
     handlers_run |-> <<>>, invoked |-> <<>>,
     roles_registered |-> roles_registered]

(***************************************************************************)
(* Session, Client                                                         *)
(***************************************************************************)
InitMH ==
    /\ request_ids = EmptyDict
    /\ subscription_map = EmptyDict
    /\ registration_map = EmptyDict
    /\ session_id = None
    /\ message_queue = <<>>
    /\ sent = <<>>
    /\ environ = EmptyDict
    /\ next_request_id = 1
    /\ handled = 0
    /\ last_message = <<0>>
    /\ raised = "none"
    /\ handlers_run = <<>>
    /\ invoked = <<>>
    /\ roles_registered = FALSE
    /\ acked = EmptyDict
    /\ call_raised = FALSE
    /\ hw_pc = 0
    /\ log = <<>>

Init == InitWS /\ InitMH

\* the receive loop hands one payload to handle_message
HandleMessage(message, outcome, env) ==
    /\ hw_pc = 0
    /\ handled < MaxMessages
    /\ Calling(message) \/ ~outcome.raises
    /\ ReadsEnviron(message) \/ env = environ
    /\ environ' = env
    /\ handled' = handled + 1
    /\ last_message' = message
    /\ log' = Logged(message, env)
    /\ \E s \in {handle_message(SessionState(env), message, outcome)} :
          /\ request_ids' = s.request_ids
          /\ subscription_map' = s.subscription_map
          /\ registration_map' = s.registration_map
          /\ session_id' = s.session_id
          /\ message_queue' = s.message_queue
          /\ sent' = s.sent
          /\ raised' = s.raised
          /\ handlers_run' = s.handlers_run
          /\ invoked' = s.invoked
          /\ roles_registered' = s.roles_registered
          /\ call_raised' = (s.invoked # <<>> /\ outcome.raises)
          /\ acked' = IF s.handlers_run = <<"subscribed">>
                         /\ s.raised = "none"
                      THEN DictSet(acked, message[3], message[2])
                      ELSE acked
    /\ UNCHANGED <<next_request_id, hw_pc, wsvars>>

\* the client subscribes: the request is kept under a new request id
SubscribeRequest(topic, handler) ==
    /\ next_request_id <= MaxRequests
    /\ request_ids' = DictSet(request_ids, next_request_id,
                              TupleValue(topic, handler))
    /\ next_request_id' = next_request_id + 1
    /\ UNCHANGED <<subscription_map, registration_map, session_id,
                   message_queue, sent, environ, handled, last_message,
                   raised, handlers_run, invoked, roles_registered, mhaux,
                   wsvars>>

\* the client registers a procedure: its name is kept under a new request id
RegisterRequest(procedure_name) ==
    /\ next_request_id <= MaxRequests
    /\ request_ids' = DictSet(request_ids, next_request_id,
                              StrValue(procedure_name))
    /\ next_request_id' = next_request_id + 1
    /\ UNCHANGED <<subscription_map, registration_map, session_id,
                   message_queue, sent, environ, handled, last_message,
                   raised, handlers_run, invoked, roles_registered, mhaux,
                   wsvars>>

\* the foreground takes the next message from the queue
Dequeue ==
    /\ message_queue # <<>>
    /\ message_queue' = Tail(message_queue)
    /\ UNCHANGED <<request_ids, subscription_map, registration_map,
                   session_id, sent, environ, next_request_id, handled,
                   last_message, raised, handlers_run, invoked,
                   roles_registered, mhaux, wsvars>>

\* the session ends: its identifier is cleared
EndSession ==
    /\ session_id # None
    /\ session_id' = None
    /\ UNCHANGED <<request_ids, subscription_map, registration_map,
                   message_queue, sent, environ, next_request_id, handled,
                   last_message, raised, handlers_run, invoked,
                   roles_registered, mhaux, wsvars>>

Next ==
    \/ \E message \in Envelopes, outcome \in Outcomes, env \in Environs :
           HandleMessage(message, outcome, env)
    \/ \E sub \in Subscriptions : SubscribeRequest(sub[1], sub[2])
    \/ \E procedure_name \in Procedures : RegisterRequest(procedure_name)
    \/ Dequeue
    \/ EndSession

Spec == Init /\ [][Next]_vars

(***************************************************************************)
(* handle_welcome one statement at a time, the foreground taking messages  *)
(* from the queue in between.                                              *)
(***************************************************************************)
\* the envelopes whose handler puts the message on the queue
QueuedEnvelopes == {message \in Envelopes : message[1] \in {3, 5, 6, 8, 50}}

\* handle_message on a Welcome, up to the call of handle_welcome
WelcomeBegin(message) ==
    /\ hw_pc = 0
    /\ handled < MaxMessages
    /\ message[1] = 2
    /\ handled' = handled + 1
    /\ last_message' = message
    /\ raised' = "none"
    /\ handlers_run' = <<"welcome">>
    /\ invoked' = <<>>
    /\ call_raised' = FALSE
    /\ log' = Logged(message, environ)
    /\ hw_pc' = 1
    /\ UNCHANGED <<request_ids, subscription_map, registration_map,
                   session_id, message_queue, sent, environ,
                   next_request_id, roles_registered, acked, wsvars>>

\* the next statement of handle_welcome
WelcomeNext ==
    /\ hw_pc \in 1..Len(WelcomeSteps)
    /\ \E s \in {WelcomeStep(WelcomeSteps[hw_pc], SessionState(environ),
                              MessageObj(last_message))} :
          /\ session_id' = s.session_id
          /\ message_queue' = s.message_queue
          /\ roles_registered' = s.roles_registered
    /\ hw_pc' = IF hw_pc = Len(WelcomeSteps) THEN 0 ELSE hw_pc + 1
    /\ UNCHANGED <<request_ids, subscription_map, registration_map, sent,
                   environ, next_request_id, handled, last_message, raised,
                   handlers_run, invoked, acked, call_raised, log, wsvars>>

NextWelcome ==
    \/ \E message \in Envelopes : WelcomeBegin(message)
    \/ WelcomeNext
    \/ \E message \in QueuedEnvelopes, outcome \in Outcomes,
          env \in Environs :
           HandleMessage(message, outcome, env)
    \/ Dequeue

SpecWelcome == Init /\ [][NextWelcome]_vars

SpecWS == Init /\ [][NextWS]_vars

(***************************************************************************)
(* Properties of receive()                                                 *)
(***************************************************************************)
IsPong(bytes) == from_bytes(bytes).opcode = OPCODE_PONG

\* the payloads of the Pong frames among the frames written, in order
PongPayloads(w) ==
    LET pongs == SelectSeq(w, IsPong)
    IN [i \in 1..Len(pongs) |-> from_bytes(pongs[i]).payload]

\* C1: receive() never returns a frame whose opcode is PING.
C1_PingNeverReturned ==
    rx_pc = "returned" => rx_result.opcode # OPCODE_PING

\* C2: the Pong frames written are, in order, one per ping frame assembled,
\* each with that ping's payload; so every Pong is on the stream before
\* receive() returns a later frame, and none is written without a ping.
C2_OnePongPerPing == PongPayloads(written) = pings

\* C2 witness: receive() has returned a later frame after two pings with
\* different payloads, and a Text frame was sent in between.
C2_Witness ==
    /\ rx_pc = "returned"
    /\ assembled = 3
    /\ rx_result.opcode # OPCODE_PING
    /\ Len(pings) = 2
    /\ pings[1] # pings[2]
    /\ Len(written) = 3

\* C3: when receive() ends after assembling a close frame it has returned
\* normally (it did not fail with the close handler's ConnectionError).
C3_CloseReturnsNormally ==
    (rx_pc \in {"returned", "failed"} /\ frame.opcode = OPCODE_CLOSE)
        => (rx_pc = "returned" /\ rx_result = frame)

\* C4: when the stream ends during a receive() in which no frame has been
\* assembled, receive() fails with WampProtocolError and returns no frame.
C4_NoFrameAtEndOfStream ==
    (rx_pc \in {"returned", "failed"} /\ last_read = "eof" /\ assembled = 0)
        => (rx_pc = "failed" /\ rx_error = "WampProtocolError"
            /\ rx_result = NoFrame)

\* C4 witness: the stream ended after part of a frame had been read.
C4_Witness ==
    /\ rx_pc = "failed"
    /\ rx_error = "WampProtocolError"
    /\ last_read = "eof"
    /\ assembled = 0
    /\ received_bytes # <<>>

(***************************************************************************)
(* Properties of the handshake                                             *)
(***************************************************************************)
\* C5: connected is false until the response read has seen the blank line,
\* and every failing handshake raises and leaves connected false.
C5_ConnectedOnlyAfterBlankLine ==
    /\ connected => (hs_pc = "done" /\ hs_line = <<"\r", "\n">>)
    /\ hs_pc \in {"init", "reading"} => ~connected
    /\ hs_pc = "failed" => (~connected /\ hs_error # "none")
    /\ hs_pc = "done" => connected

\* C5 witness: the deadline passed after the status line had been read.
C5_Witness ==
    /\ hs_pc = "failed"
    /\ hs_error = "WampyError"
    /\ hs_elapsed = HANDSHAKE_TIMEOUT
    /\ status = 101
    /\ ~connected

\* C19: whenever the handshake has completed and connected is true, a
\* numeric status code was parsed from the response and is the status
\* returned; connected is never reached with no status parsed.
C19_ConnectedHasStatus == connected => self_status # None

(***************************************************************************)
(* Properties of disconnect                                                *)
(***************************************************************************)
\* C20: when disconnect() is called while receive() is suspended waiting
\* for bytes, receive() is unblocked and ends with a closed connection, and
\* disconnect() completes without an error reaching its caller.  In the
\* form a finite run decides: disconnect(), once called on an open
\* connection, has returned with no error (having closed the stream, which
\* is what would end the suspended receive()).
C20_DisconnectCompletes ==
    dc_pc # "idle" => (dc_pc = "returned" /\ dc_error = "none")

(***************************************************************************)
(* Properties of handle_message                                            *)
(***************************************************************************)
\* this step is a handle_message call
Handling == handled' = handled + 1

WellFormed(message) ==
    /\ message[1] \in DOMAIN MESSAGE_TYPE_MAP
    /\ Len(message) - 1 = FieldCount[MESSAGE_TYPE_MAP[message[1]]]

\* C6: handle_message on an envelope of unknown kind does not raise, runs no
\* handler, invokes no callback, sends nothing and leaves the pending
\* requests, both maps, the session id and the queue as they were.
C6_UnknownKindDropped ==
    [][(Handling /\ last_message'[1] \notin DOMAIN MESSAGE_TYPE_MAP)
         => /\ raised' = "none"
            /\ handlers_run' = <<>>
            /\ invoked' = <<>>
            /\ UNCHANGED <<request_ids, subscription_map, registration_map,
                           session_id, message_queue, sent,
                           roles_registered>>]_vars

\* C6 witness: an envelope of unknown kind was handled in a session that has
\* a pending request, a subscription and a queued message.
C6_Witness ==
    /\ handled = 3
    /\ last_message[1] \notin DOMAIN MESSAGE_TYPE_MAP
    /\ raised = "none"
    /\ request_ids # EmptyDict
    /\ subscription_map # EmptyDict
    /\ message_queue # <<>>

\* C7: handle_message on a well-formed envelope of a known kind runs the
\* handler of that kind and no other.
C7_KnownKindHasHandler ==
    (handled > 0 /\ WellFormed(last_message))
        => handlers_run = <<MESSAGE_TYPE_MAP[last_message[1]]>>

\* C8: the Subscribed (Registered) message matching a pending Subscribe
\* (Register) request creates the entry keyed by the id the message assigns,
\* holding the callback and topic (the procedure name) of that request, and
\* changes no entry under another key.
C8_AckCreatesEntry ==
    [][(Handling /\ WellFormed(last_message')
          /\ last_message'[1] \in {33, 65}
          /\ last_message'[2] \in DOMAIN request_ids)
         => LET r == last_message'[2]
                id == last_message'[3]
                value == request_ids[r]
            IN /\ (last_message'[1] = 33 /\ value.type = "tuple") =>
                     /\ raised' = "none"
                     /\ DOMAIN subscription_map'
                            = DOMAIN subscription_map \cup {id}
                     /\ subscription_map'[id]
                            = <<value.handler, value.topic>>
                     /\ \A k \in DOMAIN subscription_map \ {id} :
                            subscription_map'[k] = subscription_map[k]
                     /\ registration_map' = registration_map
               /\ (last_message'[1] = 65 /\ value.type = "str") =>
                     /\ raised' = "none"
                     /\ DOMAIN registration_map'
                            = DOMAIN registration_map \cup {id}
                     /\ registration_map'[id].type = "str"
                     /\ registration_map'[id].str = value.str
                     /\ \A k \in DOMAIN registration_map \ {id} :
                            registration_map'[k] = registration_map[k]
                     /\ subscription_map' = subscription_map]_vars

\* C8 witness: a Registered message was handled after a Subscribed one, each
\* matching its own pending request.
C8_Witness ==
    /\ last_message[1] = 65
    /\ raised = "none"
    /\ DOMAIN request_ids = {1, 2}
    /\ request_ids[last_message[2]].type = "str"
    /\ last_message[3] \in DOMAIN registration_map
    /\ subscription_map # EmptyDict
    /\ \E i \in DOMAIN subscription_map :
           subscription_map[i] \in {<<"cb1", "t1">>, <<"cb2", "t2">>}

\* C9: once the Subscribed or Registered message matching request id r has
\* been handled, no pending request is keyed by r.
C9_PendingRequestConsumed ==
    (handled > 0 /\ WellFormed(last_message) /\ last_message[1] \in {33, 65}
       /\ raised = "none")
        => last_message[2] \notin DOMAIN request_ids

\* C10: an Event for a subscription id with no entry makes handle_message
\* raise; no callback is invoked, nothing is queued or sent and the
\* subscription map is as it was.
C10_EventUnknownSubscription ==
    [][(Handling /\ WellFormed(last_message') /\ last_message'[1] = 36
          /\ last_message'[2] \notin DOMAIN subscription_map)
         => /\ raised' = "KeyError"
            /\ invoked' = <<>>
            /\ UNCHANGED <<message_queue, sent, subscription_map>>]_vars

\* C10 witness: an Event for an unknown subscription id was handled while
\* another subscription exists.
C10_Witness ==
    /\ WellFormed(last_message)
    /\ last_message[1] = 36
    /\ raised = "KeyError"
    /\ subscription_map # EmptyDict
    /\ last_message[2] \notin DOMAIN subscription_map

\* C11: an Event for subscription id s, once a Subscribed message has given
\* s to a Subscribe request, invokes exactly one callable, the callback of
\* the request s was last given to, with the event's positional and keyword
\* arguments and meta = {topic of that request, s}; whatever was handled for
\* other subscription ids in between.
C11_EventInvokesSubscribedCallback ==
    [][(Handling /\ WellFormed(last_message') /\ last_message'[1] = 36
          /\ last_message'[2] \in DOMAIN acked)
         => LET s == last_message'[2]
                request == request_ids[acked[s]]
            IN invoked' = << [func |-> request.handler,
                              args |-> last_message'[5],
                              kwargs |-> last_message'[6],
                              meta |-> [topic |-> request.topic,
                                        subscription_id |-> s]] >>]_vars

\* C11 witness: an Event was delivered for one of two subscriptions that
\* were acknowledged for requests with different callbacks.
C11_Witness ==
    /\ last_message[1] = 36
    /\ Len(invoked) = 1
    /\ DOMAIN acked = {11, 12}
    /\ acked[11] # acked[12]
    /\ request_ids[acked[11]] # request_ids[acked[12]]
    /\ invoked[1].func = request_ids[acked[last_message[2]]].handler

\* this step handles a well-formed Invocation whose registration id names a
\* procedure of the client, so the procedure is called
InvokingProcedure ==
    /\ Handling
    /\ WellFormed(last_message')
    /\ last_message'[1] = 68
    /\ Len(invoked') = 1

\* what the procedures return when they return normally
ProcedureResult == (CHOOSE outcome \in Outcomes : ~outcome.raises).result

\* C12: with a session id present, an Invocation whose procedure returns
\* normally makes handle_message send exactly one message, a Yield with the
\* invocation's request id, the procedure's result and meta = {procedure
\* name, session id}; no Error is sent and nothing is raised.
C12_SuccessSendsOneYield ==
    [][(InvokingProcedure /\ session_id # None /\ ~call_raised')
         => LET procedure_name == registration_map[last_message'[3]].str
            IN /\ raised' = "none"
               /\ sent' = Append(sent,
                      [name |-> "yield",
                       request_id |-> last_message'[2],
                       result_args |-> <<ProcedureResult>>,
                       result_kwargs |->
                           [message |-> ProcedureResult,
                            meta |-> [procedure_name |-> procedure_name,
                                      session_id |-> session_id]]])]_vars

\* C12 witness: after Welcome and Registered, an Invocation was handled
\* whose procedure returned; one Yield is all that was sent.
C12_Witness ==
    /\ last_message[1] = 68
    /\ Len(invoked) = 1
    /\ ~call_raised
    /\ session_id \in SessionIds
    /\ Len(sent) = 1
    /\ sent[1].name = "yield"
    /\ sent[1].result_kwargs.meta.procedure_name = invoked[1].func

\* C13: with a session id present, an Invocation whose procedure raises
\* does not make handle_message raise, and makes it send exactly two
\* messages: an Error with the invocation's request id and the procedure
\* name, then a Yield with no result for the same request id.
C13_FailureSendsErrorThenYield ==
    [][(InvokingProcedure /\ session_id # None /\ call_raised')
         => LET procedure_name == registration_map[last_message'[3]].str
                n == Len(sent)
            IN /\ raised' = "none"
               /\ Len(sent') = n + 2
               /\ SubSeq(sent', 1, n) = sent
               /\ sent'[n + 1].name = "error"
               /\ sent'[n + 1].request_id = last_message'[2]
               /\ sent'[n + 1].error = procedure_name
               /\ sent'[n + 2].name = "yield"
               /\ sent'[n + 2].request_id = last_message'[2]
               /\ sent'[n + 2].result_args = <<None>>
               /\ sent'[n + 2].result_kwargs.message = None]_vars

\* C13 witness: after Welcome and Registered, an Invocation was handled
\* whose procedure raised; an Error and a Yield were sent and the call
\* ended normally.
C13_Witness ==
    /\ last_message[1] = 68
    /\ Len(invoked) = 1
    /\ call_raised
    /\ raised = "none"
    /\ session_id \in SessionIds
    /\ Len(sent) = 2
    /\ sent[1].name = "error"
    /\ sent[2].name = "yield"

\* C14: while the session id is absent, handling an Invocation sends
\* nothing, whatever the procedure does, and leaves the pending requests,
\* both maps and the session id as they were.
C14_NothingSentOnDeadSession ==
    [][(Handling /\ WellFormed(last_message') /\ last_message'[1] = 68
          /\ session_id = None)
         => /\ sent' = sent
            /\ UNCHANGED <<request_ids, subscription_map, registration_map,
                           session_id>>]_vars

\* C14 witness: the session had been established and ended when an
\* Invocation was handled whose procedure was called and raised.
C14_Witness ==
    /\ last_message[1] = 68
    /\ Len(invoked) = 1
    /\ call_raised
    /\ session_id = None
    /\ roles_registered
    /\ sent = <<>>

\* C15: handling a Challenge never raises and leaves the pending requests,
\* both maps and the session id as they were.  With no WAMPYSECRET in the
\* environment the Challenge itself is appended to the queue and nothing is
\* sent; with one, nothing is queued and exactly one Authenticate is sent,
\* carrying the secret when the method is "ticket" and the signature of the
\* challenge data otherwise.
C15_ChallengeDelegatedOrAnswered ==
    [][(Handling /\ WellFormed(last_message') /\ last_message'[1] = 4)
         => /\ raised' = "none"
            /\ UNCHANGED <<request_ids, subscription_map, registration_map,
                           session_id>>
            /\ IF "WAMPYSECRET" \notin DOMAIN environ'
               THEN /\ message_queue' = Append(message_queue,
                           [name |-> "challenge",
                            auth_method |-> last_message'[2],
                            challenge |-> last_message'[3]])
                    /\ sent' = sent
               ELSE /\ message_queue' = message_queue
                    /\ sent' = Append(sent,
                           [name |-> "authenticate",
                            signature |->
                                IF last_message'[2] = "ticket"
                                THEN environ'["WAMPYSECRET"]
                                ELSE compute_wcs(environ'["WAMPYSECRET"],
                                                 last_message'[3])])]_vars

\* C15 witness: one Challenge was handled without a secret and queued, and
\* a later "ticket" Challenge was handled with the secret and answered.
C15_Witness ==
    /\ last_message[1] = 4
    /\ last_message[2] = "ticket"
    /\ "WAMPYSECRET" \in DOMAIN environ
    /\ Len(message_queue) = 1
    /\ message_queue[1].name = "challenge"
    /\ Len(sent) = 1
    /\ sent[1] = [name |-> "authenticate", signature |-> SECRET]

\* C18: what a subscriber callback raises during an Event leaves
\* handle_message as raised, nothing having been sent and the subscription
\* map being as it was; what a procedure raises during an Invocation never
\* leaves handle_message.
C18_CallbackErrorPropagates ==
    [][(Handling /\ WellFormed(last_message') /\ call_raised')
         => /\ last_message'[1] = 36
                 => /\ raised' = "CallbackError"
                    /\ sent' = sent
                    /\ subscription_map' = subscription_map
            /\ last_message'[1] = 68 => raised' = "none"]_vars

\* C18 witness: in an established session an Event was delivered and its
\* callback raised.
C18_Witness ==
    /\ last_message[1] = 36
    /\ Len(invoked) = 1
    /\ call_raised
    /\ raised = "CallbackError"
    /\ subscription_map # EmptyDict
    /\ session_id \in SessionIds

(***************************************************************************)
(* Properties of the queue                                                 *)
(***************************************************************************)
QueuedKinds ==
    {"abort", "authenticate", "error", "goodbye", "result", "welcome"}

\* the message objects of the logged messages that are of the six queued
\* kinds or, if delegated is set, a Challenge handled without a secret
QueuedOf(l, delegated) ==
    LET Keep(entry) ==
            \/ entry.message_obj.name \in QueuedKinds
            \/ /\ delegated
               /\ entry.message_obj.name = "challenge"
               /\ ~entry.secret
        kept == SelectSeq(l, Keep)
    IN [i \in 1..Len(kept) |-> kept[i].message_obj]

\* q is what is left of l once the foreground has taken some from its head
IsSuffix(q, l) ==
    /\ Len(q) <= Len(l)
    /\ q = SubSeq(l, Len(l) - Len(q) + 1, Len(l))

\* what a step does to the queue, the queue holding in handling order the
\* messages QueuedOf keeps and the foreground has not taken
Routing(delegated) ==
    /\ IsSuffix(message_queue', QueuedOf(log', delegated))
    /\ (Handling /\ WellFormed(last_message'))
         => LET name == MESSAGE_TYPE_MAP[last_message'[1]]
            IN /\ name \in QueuedKinds
                    => message_queue' = Append(message_queue,
                                               MessageObj(last_message'))
               /\ name \in {"event", "subscribed", "registered",
                             "invocation"}
                    => message_queue' = message_queue
               /\ name \in QueuedKinds \ {"welcome"}
                    => UNCHANGED <<request_ids, subscription_map,
                                   registration_map, session_id>>

\* C17 as stated: Abort, Authenticate, Error, Goodbye, Result and Welcome
\* each append the message itself to the queue; Event, Subscribed,
\* Registered and Invocation never append; the queue holds, in the order
\* handled, the handled messages of the six queued kinds (those the
\* foreground has not taken); and the first five leave the pending
\* requests, both maps and the session id as they were.
C17_QueueHoldsQueuedKinds == [][Routing(FALSE)]_vars

\* C17 amended: the same, the queue holding as well each Challenge that was
\* handled while no secret was configured.
C17_QueueHoldsQueuedAndDelegated == [][Routing(TRUE)]_vars

\* C17 witness: three messages of different kinds were handled, a delegated
\* Challenge among them, the foreground took the first, and the queue holds
\* the other two in the order handled.
C17_Witness ==
    /\ Len(log) = 3
    /\ \E i \in 1..3 : log[i].message_obj.name = "challenge"
    /\ \E i \in 1..3 : log[i].message_obj.name = "welcome"
    /\ log[1].message_obj.name # log[2].message_obj.name
    /\ log[2].message_obj.name # log[3].message_obj.name
    /\ message_queue = <<log[2].message_obj, log[3].message_obj>>

(***************************************************************************)
(* Properties of handle_welcome against the foreground                     *)
(***************************************************************************)
\* this step is the foreground taking the head of the queue
Dequeuing ==
    /\ message_queue # <<>>
    /\ message_queue' = Tail(message_queue)
    /\ hw_pc' = hw_pc
    /\ handled' = handled

\* handle_welcome is past the statement called name
WelcomeDone(name) == \E i \in 1..(hw_pc - 1) : WelcomeSteps[i] = name

====
